---- MODULE Spec2Model ----
(***************************************************************************)
(* Moving average of event durations over minute windows (src/main.py).    *)
(*                                                                         *)
(* Three specifications share the variables below:                         *)
(*   Spec      the whole run of main(): the lazy line generator            *)
(*             iter_minute_buckets pulled by the driver loop of main;      *)
(*   SpecEM    the pure functions floor_to_minute / effective_minute;      *)
(*   SpecParse the pure function parse_and_validate_event.                 *)
(***************************************************************************)
EXTENDS Integers, Sequences, FiniteSets, TLC

VARIABLES
    window_size,        \* args.window_size
    strict_event_name,  \* args.strict_event_name
    skip_invalid,       \* args.skip_invalid
    enforce_order,      \* args.enforce_order
    gen,                \* the generator object iter_minute_buckets(...)
    pc,                 \* position of main()
    ma,                 \* the MovingAverageWindow instance
    next_bucket,        \* main's local next_bucket (Option)
    current_out,        \* main's local current_out (Option until set)
    last_bucket_minute, \* main's local last_bucket_minute (Option until set)
    stdout,             \* the records printed by emit
    exit,               \* how main ended: "", "ok", "SystemExit", "ValueError"
    arg,                \* SpecEM / SpecParse: the argument of the pure function
    ret                 \* SpecEM / SpecParse: its result (Option)

vars == <<window_size, strict_event_name, skip_invalid, enforce_order,
          gen, pc, ma, next_bucket, current_out, last_bucket_minute, stdout, exit,
          arg, ret>>

(***************************************************************************)
(* Bounds of the model.                                                    *)
(***************************************************************************)
\* longest input file, in lines
MaxLines == 3
\* largest --window_size tried (-1 and 0 are tried too: the rejected ones)
MaxWindow == 2
\* Width of the float significand.  A Python float has 53 bits; every integer
\* below 2^53 is exact and a larger one is rounded to the nearest multiple of a
\* power of two, ties to even.  The model keeps that arithmetic at a width small
\* enough for the rounding to happen on small durations.
Precision == 3

(***************************************************************************)
(* Optional values: None is <<>>, a present value x is <<x>>.              *)
(***************************************************************************)
None == <<>>
Some(x) == <<x>>
IsNone(o) == o = <<>>
Val(o) == o[1]

(***************************************************************************)
(* datetime: naive timestamps, compared field by field; timedelta          *)
(* arithmetic carries into the hour and the day.                           *)
(***************************************************************************)
DateTime(d, h, mi, s, us) ==
    [day |-> d, hour |-> h, minute |-> mi, second |-> s, microsecond |-> us]

\* minutes since the epoch of the date part and the hour:minute part
ToMinutes(dt) == (dt.day * 24 + dt.hour) * 60 + dt.minute

\* dt + timedelta(minutes=k)
AddMinutes(dt, k) ==
    LET n == ToMinutes(dt) + k
    IN  DateTime(n \div 1440, (n \div 60) % 24, n % 60, dt.second, dt.microsecond)

\* datetime.__lt__
Before(a, b) ==
    \/ ToMinutes(a) < ToMinutes(b)
    \/ /\ ToMinutes(a) = ToMinutes(b)
       /\ \/ a.second < b.second
          \/ a.second = b.second /\ a.microsecond < b.microsecond

\* now_minute.strftime("%Y-%m-%d %H:%M:%S"): the sub-second part is not printed
Strftime(dt) ==
    [day |-> dt.day, hour |-> dt.hour, minute |-> dt.minute, second |-> dt.second]

\* line 16: dt.replace(second=0, microsecond=0)
floor_to_minute(dt) == [dt EXCEPT !.second = 0, !.microsecond = 0]

\* a minute boundary told by the seconds alone
effective_minute_seconds_only(dt) ==
    LET floored == floor_to_minute(dt)
    IN  IF dt.second = 0 THEN floored ELSE AddMinutes(floored, 1)

\* lines 29-32: the same minute on a boundary, the next minute otherwise
effective_minute(dt) ==
    LET floored == floor_to_minute(dt)
    IN  IF dt = floored THEN floored ELSE AddMinutes(floored, 1)

(***************************************************************************)
(* float: values are integers (every duration of the model is a whole      *)
(* number); a result that needs more than Precision significant bits is    *)
(* rounded to the nearest representable value, ties to the even            *)
(* significand.                                                            *)
(***************************************************************************)
RECURSIVE Pow2(_)
Pow2(k) == IF k = 0 THEN 1 ELSE 2 * Pow2(k - 1)

Abs(n) == IF n < 0 THEN -n ELSE n

\* the spacing of representable values around magnitude n
RECURSIVE Ulp(_)
Ulp(n) == IF n < Pow2(Precision) THEN 1 ELSE 2 * Ulp(n \div 2)

RoundFloat(n) ==
    LET a == Abs(n)
        u == Ulp(a)
        q == a \div u
        r == a % u
        up == \/ 2 * r > u
              \/ 2 * r = u /\ q % 2 = 1
        m == IF up THEN (q + 1) * u ELSE q * u
    IN  IF n < 0 THEN -m ELSE m

FAdd(a, b) == RoundFloat(a + b)
FSub(a, b) == RoundFloat(a - b)

(***************************************************************************)
(* One line of the input file, by what the parser reads of it.             *)
(*   blank        line.strip() is empty                                    *)
(*   json_ok      json.loads(line) succeeds                                *)
(*   is_obj       the decoded value is a dict                              *)
(*   has_ts       "timestamp" in obj        has_dur   "duration" in obj    *)
(*   ts_is_str    obj["timestamp"] is a str                                *)
(*   ts_fmt_ok    it matches TS_FMT, and then ts is the datetime parsed    *)
(*   dur_numeric  float(obj["duration"]) succeeds, and then dur is the     *)
(*                number written                                           *)
(*   name_ok      obj.get("event_name") == "translation_delivered"         *)
(***************************************************************************)
Line(b, j, o, ht, hd, s, fm, t, n, d, e) ==
    [blank |-> b, json_ok |-> j, is_obj |-> o, has_ts |-> ht, has_dur |-> hd,
     ts_is_str |-> s, ts_fmt_ok |-> fm, ts |-> t, dur_numeric |-> n, dur |-> d,
     name_ok |-> e]

\* the first raw minute of the inputs: one minute before midnight, so that the
\* minutes of a run cross the hour and the day
FirstMinute == DateTime(0, 23, 59, 0, 0)

\* The raw timestamps of the inputs, as <<minutes after FirstMinute, second,
\* microsecond>>: on a minute boundary and inside a minute; two that share an
\* effective minute (the second and the third); effective minutes that follow
\* one another and one that leaves a gap.
RawTimes == {<<0, 0, 0>>, <<0, 8, 509654>>, <<1, 0, 0>>, <<2, 8, 509654>>}

TimestampSet ==
    {[AddMinutes(FirstMinute, r[1]) EXCEPT !.second = r[2], !.microsecond = r[3]] :
        r \in RawTimes}

\* the durations written in valid lines: zero, and two neighbours at the top of
\* the exactly representable range, whose sum needs one more bit
Durations == {0, Pow2(Precision - 1), Pow2(Precision - 1) + 1}

ValidLine(t, d) == Line(FALSE, TRUE, TRUE, TRUE, TRUE, TRUE, TRUE, t, TRUE, d, TRUE)
BlankLine == [ValidLine(FirstMinute, 0) EXCEPT !.blank = TRUE]
MalformedLine == [ValidLine(FirstMinute, 0) EXCEPT !.json_ok = FALSE]
NegativeLine == [ValidLine(AddMinutes(FirstMinute, 1), -1) EXCEPT !.dur = -1]
UnnamedLine == [ValidLine(FirstMinute, Pow2(Precision - 1)) EXCEPT !.name_ok = FALSE]

LineSet ==
    {ValidLine(t, d) : t \in TimestampSet, d \in Durations}
        \cup {BlankLine, MalformedLine, NegativeLine, UnnamedLine}

\* every combination of defects, for the parser alone
ParserLineSet ==
    {Line(FALSE, j, o, ht, hd, s, fm, FirstMinute, n, d, e) :
        j \in BOOLEAN, o \in BOOLEAN, ht \in BOOLEAN, hd \in BOOLEAN,
        s \in BOOLEAN, fm \in BOOLEAN, n \in BOOLEAN, d \in {-1, 0, 1},
        e \in BOOLEAN}

(***************************************************************************)
(* parse_and_validate_event: <<ts, dur>> on success, else the ValueError,  *)
(* which carries the line number and the rule violated.                    *)
(***************************************************************************)
ValueError(line_no, kind) == [line_no |-> line_no, kind |-> kind]
Raise(e) == [raised |-> TRUE, error |-> e, value |-> <<>>]
Return(v) == [raised |-> FALSE, error |-> <<>>, value |-> v]

\* the same checks with the type of the timestamp checked before the presence
\* of the duration
parse_and_validate_event_ts_first(line, line_no, strict) ==
    IF ~line.json_ok THEN Raise(ValueError(line_no, "invalid JSON"))
    ELSE IF ~line.is_obj THEN Raise(ValueError(line_no, "JSON value must be an object"))
    ELSE IF ~line.has_ts THEN Raise(ValueError(line_no, "missing 'timestamp'"))
    ELSE IF ~line.ts_is_str THEN Raise(ValueError(line_no, "'timestamp' must be a string"))
    ELSE IF ~line.ts_fmt_ok THEN Raise(ValueError(line_no, "'timestamp' does not match format"))
    ELSE IF ~line.has_dur THEN Raise(ValueError(line_no, "missing 'duration'"))
    ELSE IF ~line.dur_numeric THEN Raise(ValueError(line_no, "'duration' must be numeric"))
    ELSE IF RoundFloat(line.dur) < 0 THEN Raise(ValueError(line_no, "'duration' must be >= 0"))
    ELSE IF strict /\ ~line.name_ok THEN Raise(ValueError(line_no, "expected event_name"))
    ELSE Return(<<line.ts, RoundFloat(line.dur)>>)

parse_and_validate_event(line, line_no, strict) ==
    IF ~line.json_ok THEN Raise(ValueError(line_no, "invalid JSON"))
    ELSE IF ~line.is_obj THEN Raise(ValueError(line_no, "JSON value must be an object"))
    ELSE IF ~line.has_ts THEN Raise(ValueError(line_no, "missing 'timestamp'"))
    ELSE IF ~line.has_dur THEN Raise(ValueError(line_no, "missing 'duration'"))
    ELSE IF ~line.ts_is_str THEN Raise(ValueError(line_no, "'timestamp' must be a string"))
    ELSE IF ~line.ts_fmt_ok THEN Raise(ValueError(line_no, "'timestamp' does not match format"))
    ELSE IF ~line.dur_numeric THEN Raise(ValueError(line_no, "'duration' must be numeric"))
    ELSE IF RoundFloat(line.dur) < 0 THEN Raise(ValueError(line_no, "'duration' must be >= 0"))
    ELSE IF strict /\ ~line.name_ok THEN Raise(ValueError(line_no, "expected event_name"))
    ELSE Return(<<line.ts, RoundFloat(line.dur)>>)

(***************************************************************************)
(* iter_minute_buckets: the generator object.                              *)
(*   f, line_no   the lines of the file at args.input_file that have been  *)
(*                read so far, and the number of the line last read        *)
(*   start_out, cur_min, cur_sum, cur_cnt, prev_ts   its locals            *)
(*   state        "created" (not started), "loop" (at the for statement),  *)
(*                "at147" / "at154" (suspended at that yield), "closed"    *)
(*   held         the locals <<ts, dur, m>> alive across the yield at 147  *)
(*   running      a next() call is executing its body                      *)
(*   out          what the last next() returned (None: StopIteration)      *)
(*   error        the ValueError that closed it                            *)
(*   stderr       the messages it printed to sys.stderr                    *)
(*   yielded      every bucket it has produced, in order                   *)
(***************************************************************************)
NewGen(f) ==
    [f |-> f, line_no |-> 0, start_out |-> None, cur_min |-> None, cur_sum |-> 0,
     cur_cnt |-> 0, prev_ts |-> None, state |-> "created", held |-> None,
     running |-> FALSE, out |-> None, error |-> None, stderr |-> <<>>,
     yielded |-> <<>>]

CurLine(g) == g.f[g.line_no + 1]
Parsed(g) == parse_and_validate_event(CurLine(g), g.line_no + 1, strict_event_name)

\* a line as stale as the last accepted one is rejected too
OutOfOrder_or_equal(g, ts) ==
    enforce_order /\ ~IsNone(g.prev_ts) /\ ~Before(Val(g.prev_ts), ts)

\* line 130: enforce_order and prev_ts is not None and ts < prev_ts
OutOfOrder(g, ts) ==
    enforce_order /\ ~IsNone(g.prev_ts) /\ Before(ts, Val(g.prev_ts))

OrderError(g, ts) ==
    [line_no |-> g.line_no + 1, kind |-> "timestamp out of order",
     got |-> ts, prev |-> Val(g.prev_ts)]

\* which statement the generator executes next
Branch(g) ==
    IF g.state = "closed" THEN "closed"
    ELSE IF g.state = "at147" THEN "resume147"
    ELSE IF g.state = "at154" THEN "resume154"
    ELSE IF g.line_no = Len(g.f) THEN "eof"
    ELSE IF CurLine(g).blank THEN "blank"
    ELSE IF Parsed(g).raised THEN (IF skip_invalid THEN "invalid_skip" ELSE "invalid_raise")
    ELSE IF OutOfOrder(g, Parsed(g).value[1])
         THEN (IF skip_invalid THEN "order_skip" ELSE "order_raise")
    ELSE "accept"

\* lines 113-115: a blank line is passed over
gen_blank(g) == [g EXCEPT !.line_no = @ + 1, !.state = "loop"]

\* lines 124-126 and 132-134: the message goes to stderr, the loop continues
gen_skip(g, msg) ==
    [g EXCEPT !.line_no = @ + 1, !.state = "loop", !.stderr = Append(@, msg)]

\* an error that is reported and passed over, as in skip mode
gen_raise_goes_on(g, msg) ==
    [g EXCEPT !.line_no = @ + 1, !.state = "loop", !.stderr = Append(@, msg)]

\* lines 127 and 135: the ValueError leaves the generator, which is then closed
gen_raise(g, msg) ==
    [g EXCEPT !.line_no = @ + 1, !.state = "closed", !.running = FALSE,
              !.out = None, !.error = Some(msg)]

\* a skipped out-of-order line that becomes the reference of the next comparison
gen_order_skip_moves_reference(g, ts) ==
    [gen_skip(g, OrderError(g, ts)) EXCEPT !.prev_ts = Some(ts)]

\* lines 130-134 in skip mode: prev_ts is left alone
gen_order_skip(g, ts) == gen_skip(g, OrderError(g, ts))

Yield(g, at, bucket) ==
    [g EXCEPT !.state = at, !.running = FALSE, !.out = Some(bucket),
              !.yielded = Append(@, bucket)]

\* the start of the output taken from the effective minute
gen_accept_start_effective(g, ts, dur) ==
    LET m  == effective_minute(ts)
        g1 == [g EXCEPT !.line_no = @ + 1, !.state = "loop", !.prev_ts = Some(ts),
                        !.start_out = IF IsNone(@) THEN Some(m) ELSE @,
                        !.cur_min = IF IsNone(@) THEN Some(m) ELSE @]
    IN  IF Some(m) # g1.cur_min
        THEN [Yield(g1, "at147", <<Val(g1.cur_min), g1.cur_sum, g1.cur_cnt,
                                   Val(g1.start_out)>>)
                 EXCEPT !.held = Some(<<ts, dur, m>>)]
        ELSE [g1 EXCEPT !.cur_sum = FAdd(@, dur), !.cur_cnt = @ + 1]

\* lines 136-151, up to the yield at 147 when the minute changes
gen_accept(g, ts, dur) ==
    LET m  == effective_minute(ts)
        g1 == [g EXCEPT !.line_no = @ + 1, !.state = "loop", !.prev_ts = Some(ts),
                        !.start_out = IF IsNone(@) THEN Some(floor_to_minute(ts)) ELSE @,
                        !.cur_min = IF IsNone(@) THEN Some(m) ELSE @]
    IN  IF Some(m) # g1.cur_min
        THEN [Yield(g1, "at147", <<Val(g1.cur_min), g1.cur_sum, g1.cur_cnt,
                                   Val(g1.start_out)>>)
                 EXCEPT !.held = Some(<<ts, dur, m>>)]
        ELSE [g1 EXCEPT !.cur_sum = FAdd(@, dur), !.cur_cnt = @ + 1]

\* lines 148-151 after the yield at 147: the held line opens the new bucket
gen_resume147(g) ==
    LET h == Val(g.held)
    IN  [g EXCEPT !.state = "loop", !.held = None, !.cur_min = Some(h[3]),
                  !.cur_sum = FAdd(0, h[2]), !.cur_cnt = 0 + 1]

StopIteration(g) == [g EXCEPT !.state = "closed", !.running = FALSE, !.out = None]

\* an end of file that drops the open bucket
gen_eof_no_flush(g) == StopIteration(g)

\* lines 153-154: the open bucket is flushed at the end of the file
gen_eof(g) ==
    IF ~IsNone(g.cur_min) /\ ~IsNone(g.start_out)
    THEN Yield(g, "at154", <<Val(g.cur_min), g.cur_sum, g.cur_cnt, Val(g.start_out)>>)
    ELSE StopIteration(g)

\* one statement of the running generator
GenStep(g) ==
    LET b == Branch(g)
    IN  CASE b = "resume147"     -> gen_resume147(g)
          [] b = "resume154"     -> StopIteration(g)
          [] b = "eof"           -> gen_eof(g)
          [] b = "blank"         -> gen_blank(g)
          [] b = "invalid_skip"  -> gen_skip(g, Parsed(g).error)
          [] b = "invalid_raise" -> gen_raise(g, Parsed(g).error)
          [] b = "order_skip"    -> gen_order_skip(g, Parsed(g).value[1])
          [] b = "order_raise"   -> gen_raise(g, OrderError(g, Parsed(g).value[1]))
          [] b = "accept"        -> gen_accept(g, Parsed(g).value[1], Parsed(g).value[2])
          [] OTHER               -> g

\* next(buckets): the call enters (or re-enters) the generator's body
CallNext(g) == IF g.state = "closed" THEN [g EXCEPT !.out = None]
               ELSE [g EXCEPT !.running = TRUE]

\* list(iter_minute_buckets(...)): the generator run to its end
RECURSIVE Drain(_)
Drain(g) == IF g.state = "closed" THEN g ELSE Drain(GenStep([g EXCEPT !.running = TRUE]))

(***************************************************************************)
(* MovingAverageWindow                                                     *)
(***************************************************************************)
MovingAverageWindow(ws) == [window_size |-> ws, window |-> <<>>, w_sum |-> 0, w_cnt |-> 0]

\* a cutoff one minute too early: the window keeps window_size + 1 minutes
RECURSIVE expire_old_off_by_one(_, _)
expire_old_off_by_one(self, now_minute) ==
    LET cutoff == AddMinutes(now_minute, -self.window_size)
    IN  IF self.window # <<>> /\ Before(self.window[1][1], cutoff)
        THEN expire_old_off_by_one(
                 [self EXCEPT !.window = Tail(@),
                              !.w_sum = FSub(@, self.window[1][2]),
                              !.w_cnt = @ - self.window[1][3]], now_minute)
        ELSE self

RECURSIVE expire_old(_, _)
expire_old(self, now_minute) ==
    LET cutoff == AddMinutes(now_minute, -(self.window_size - 1))
    IN  IF self.window # <<>> /\ Before(self.window[1][1], cutoff)
        THEN expire_old([self EXCEPT !.window = Tail(@),
                                     !.w_sum = FSub(@, self.window[1][2]),
                                     !.w_cnt = @ - self.window[1][3]], now_minute)
        ELSE self

add_bucket(self, minute, sum_duration, count) ==
    [self EXCEPT !.window = Append(@, <<minute, sum_duration, count>>),
                 !.w_sum = FAdd(@, sum_duration),
                 !.w_cnt = @ + count]

\* the quotient w_sum / w_cnt is kept as the pair of its terms
Quotient(n, d) == [num |-> n, den |-> d]

average(self) == IF self.w_cnt # 0 THEN Quotient(self.w_sum, self.w_cnt) ELSE Quotient(0, 1)

(***************************************************************************)
(* main(): the driver                                                      *)
(*   pc  "main"        before the window_size check                        *)
(*       "next_first"  inside next(buckets, None) of line 232              *)
(*       "loop"        at the top of the while loop, line 257              *)
(*       "next_loop"   inside next(buckets, None) of line 262              *)
(*       "emit"        at emit(current_out), line 268                      *)
(*       "done"        returned;  "crashed"  left by an exception          *)
(***************************************************************************)
\* main's locals next_minute, next_sum, next_cnt, read off the pending bucket
next_minute == IF IsNone(next_bucket) THEN None ELSE Some(Val(next_bucket)[1])
next_sum == Val(next_bucket)[2]
next_cnt == Val(next_bucket)[3]

OutputRecord(now_minute, avg) == [date |-> Strftime(now_minute), average_delivery_time |-> avg]

\* emit(now_minute): one record printed to stdout
emit(out, now_minute, window) == Append(out, OutputRecord(now_minute, average(window)))

\* an advance straight to the pending bucket: the minutes between are not emitted
Advance_to_pending(cur, nm) == IF ~IsNone(nm) THEN Val(nm) ELSE AddMinutes(cur, 1)

\* lines 277-281: one minute on, clamped down to the pending bucket's minute
Advance(cur, nm) ==
    LET stepped == AddMinutes(cur, 1)
    IN  IF ~IsNone(nm) /\ Before(Val(nm), stepped) THEN Val(nm) ELSE stepped

\* a loop that stops at the last bucket added, whatever is still pending
MustBreak_ignores_pending(nm, cur, last) == ~Before(cur, last)

\* line 274: no bucket pending and the output has reached the last bucket
MustBreak(nm, cur, last) == IsNone(nm) /\ ~Before(cur, last)

\* line 259: the pending bucket is the one of the current output minute
BucketDue == ~IsNone(next_minute) /\ Val(current_out) = Val(next_minute)

\* lines 270-271
LastBucketMinute == IF ma.window # <<>> THEN Some(ma.window[Len(ma.window)][1])
                    ELSE last_bucket_minute

\* --window_size is any integer: a negative one, zero, and the valid sizes
WindowSizes == (-1)..MaxWindow

Init ==
    /\ window_size \in WindowSizes
    /\ strict_event_name \in BOOLEAN
    /\ skip_invalid \in BOOLEAN
    /\ enforce_order \in BOOLEAN
    /\ gen = NewGen(<<>>)
    /\ pc = "main"
    /\ ma = MovingAverageWindow(window_size)
    /\ next_bucket = None
    /\ current_out = None
    /\ last_bucket_minute = None
    /\ stdout = <<>>
    /\ exit = ""
    /\ arg = None
    /\ ret = None

args == <<window_size, strict_event_name, skip_invalid, enforce_order>>
locals == <<next_bucket, current_out, last_bucket_minute>>
pure == <<arg, ret>>

\* lines 218-219
MainBadWindow ==
    /\ pc = "main"
    /\ window_size <= 0
    /\ pc' = "crashed"
    /\ exit' = "SystemExit"
    /\ UNCHANGED <<args, gen, ma, locals, stdout, pure>>

\* a start that does not look at the window size
MainStart_unchecked ==
    /\ pc = "main"
    /\ gen' = CallNext(NewGen(<<>>))
    /\ ma' = MovingAverageWindow(window_size)
    /\ pc' = "next_first"
    /\ UNCHANGED <<args, locals, stdout, exit, pure>>

\* lines 222-232: the generator and the window are made, the first bucket is asked for
MainStart ==
    /\ pc = "main"
    /\ ~(window_size <= 0)
    /\ gen' = CallNext(NewGen(<<>>))
    /\ ma' = MovingAverageWindow(window_size)
    /\ pc' = "next_first"
    /\ UNCHANGED <<args, locals, stdout, exit, pure>>

\* the generator's body is executing, at the for statement of line 112
Reading == pc \in {"next_first", "next_loop"} /\ gen.running
               /\ gen.state \in {"created", "loop"}

\* The file is read one line at a time, and what a line holds is known only when
\* it is read: the next line of the file is any line of LineSet.
Read(g, line) == [g EXCEPT !.f = Append(@, line)]
MoreLines == Len(gen.f) < MaxLines

GenBlank ==
    /\ Reading /\ MoreLines
    /\ \E line \in LineSet :
          LET g == Read(gen, line)
          IN  /\ Branch(g) = "blank"
              /\ gen' = gen_blank(g)
    /\ UNCHANGED <<args, pc, ma, locals, stdout, exit, pure>>

GenInvalidSkip ==
    /\ Reading /\ MoreLines
    /\ \E line \in LineSet :
          LET g == Read(gen, line)
          IN  /\ Branch(g) = "invalid_skip"
              /\ gen' = gen_skip(g, Parsed(g).error)
    /\ UNCHANGED <<args, pc, ma, locals, stdout, exit, pure>>

GenInvalidRaise ==
    /\ Reading /\ MoreLines
    /\ \E line \in LineSet :
          LET g == Read(gen, line)
          IN  /\ Branch(g) = "invalid_raise"
              /\ gen' = gen_raise(g, Parsed(g).error)
    /\ UNCHANGED <<args, pc, ma, locals, stdout, exit, pure>>

GenOrderSkip ==
    /\ Reading /\ MoreLines
    /\ \E line \in LineSet :
          LET g == Read(gen, line)
          IN  /\ Branch(g) = "order_skip"
              /\ gen' = gen_order_skip(g, Parsed(g).value[1])
    /\ UNCHANGED <<args, pc, ma, locals, stdout, exit, pure>>

GenOrderRaise ==
    /\ Reading /\ MoreLines
    /\ \E line \in LineSet :
          LET g == Read(gen, line)
          IN  /\ Branch(g) = "order_raise"
              /\ gen' = gen_raise(g, OrderError(g, Parsed(g).value[1]))
    /\ UNCHANGED <<args, pc, ma, locals, stdout, exit, pure>>

GenAccept ==
    /\ Reading /\ MoreLines
    /\ \E line \in LineSet :
          LET g == Read(gen, line)
          IN  /\ Branch(g) = "accept"
              /\ gen' = gen_accept(g, Parsed(g).value[1], Parsed(g).value[2])
    /\ UNCHANGED <<args, pc, ma, locals, stdout, exit, pure>>

\* the file has no further line
GenEof ==
    /\ Reading
    /\ Branch(gen) = "eof"
    /\ gen' = gen_eof(gen)
    /\ UNCHANGED <<args, pc, ma, locals, stdout, exit, pure>>

Resuming == pc \in {"next_first", "next_loop"} /\ gen.running

GenResume147 ==
    /\ Resuming
    /\ Branch(gen) = "resume147"
    /\ gen' = gen_resume147(gen)
    /\ UNCHANGED <<args, pc, ma, locals, stdout, exit, pure>>

GenResume154 ==
    /\ Resuming
    /\ Branch(gen) = "resume154"
    /\ gen' = StopIteration(gen)
    /\ UNCHANGED <<args, pc, ma, locals, stdout, exit, pure>>

Returned == pc \in {"next_first", "next_loop"} /\ ~gen.running

\* a driver that prints the record of the current minute before the error
\* leaves it
Propagate_after_emit ==
    /\ Returned
    /\ ~IsNone(gen.error)
    /\ stdout' = IF IsNone(current_out) THEN stdout ELSE emit(stdout, Val(current_out), ma)
    /\ pc' = "crashed"
    /\ exit' = "ValueError"
    /\ UNCHANGED <<args, gen, ma, locals, pure>>

\* a ValueError raised inside next() is not caught by main
Propagate ==
    /\ Returned
    /\ ~IsNone(gen.error)
    /\ pc' = "crashed"
    /\ exit' = "ValueError"
    /\ UNCHANGED <<args, gen, ma, locals, stdout, pure>>

\* an empty bucket sequence reported as one record of average 0
NoEvents_zero_record ==
    /\ pc = "next_first"
    /\ Returned
    /\ IsNone(gen.error)
    /\ IsNone(gen.out)
    /\ stdout' = Append(stdout, OutputRecord(FirstMinute, Quotient(0, 1)))
    /\ pc' = "done"
    /\ exit' = "ok"
    /\ UNCHANGED <<args, gen, ma, locals, pure>>

\* lines 234-235
NoEvents ==
    /\ pc = "next_first"
    /\ Returned
    /\ IsNone(gen.error)
    /\ IsNone(gen.out)
    /\ pc' = "done"
    /\ exit' = "ok"
    /\ UNCHANGED <<args, gen, ma, locals, stdout, pure>>

\* lines 238-253
FirstBucket ==
    /\ pc = "next_first"
    /\ Returned
    /\ IsNone(gen.error)
    /\ ~IsNone(gen.out)
    /\ next_bucket' = gen.out
    /\ current_out' = Some(Val(gen.out)[4])
    /\ last_bucket_minute' = Some(Val(gen.out)[1])
    /\ pc' = "loop"
    /\ UNCHANGED <<args, gen, ma, stdout, exit, pure>>

\* line 257, and line 259 false
LoopExpire ==
    /\ pc = "loop"
    /\ ~BucketDue
    /\ ma' = expire_old(ma, Val(current_out))
    /\ pc' = "emit"
    /\ UNCHANGED <<args, gen, locals, stdout, exit, pure>>

\* lines 257-262: expire, add the due bucket, ask for the next one
LoopExpireAdd ==
    /\ pc = "loop"
    /\ BucketDue
    /\ ma' = add_bucket(expire_old(ma, Val(current_out)), Val(next_minute), next_sum, next_cnt)
    /\ gen' = CallNext(gen)
    /\ pc' = "next_loop"
    /\ UNCHANGED <<args, locals, stdout, exit, pure>>

\* lines 263-266
NextReturned ==
    /\ pc = "next_loop"
    /\ Returned
    /\ IsNone(gen.error)
    /\ next_bucket' = gen.out
    /\ pc' = "emit"
    /\ UNCHANGED <<args, gen, ma, current_out, last_bucket_minute, stdout, exit, pure>>

\* lines 268-275: emit, then leave the loop
LoopBreak ==
    /\ pc = "emit"
    /\ MustBreak(next_minute, Val(current_out), Val(LastBucketMinute))
    /\ stdout' = emit(stdout, Val(current_out), ma)
    /\ last_bucket_minute' = LastBucketMinute
    /\ pc' = "done"
    /\ exit' = "ok"
    /\ UNCHANGED <<args, gen, ma, next_bucket, current_out, pure>>

\* lines 268-281: emit, then go on to the next output minute
LoopAdvance ==
    /\ pc = "emit"
    /\ ~MustBreak(next_minute, Val(current_out), Val(LastBucketMinute))
    /\ stdout' = emit(stdout, Val(current_out), ma)
    /\ last_bucket_minute' = LastBucketMinute
    /\ current_out' = Some(Advance(Val(current_out), next_minute))
    /\ pc' = "loop"
    /\ UNCHANGED <<args, gen, ma, next_bucket, exit, pure>>

Next ==
    \/ MainBadWindow
    \/ MainStart
    \/ Propagate
    \/ NoEvents
    \/ FirstBucket
    \/ LoopExpire
    \/ LoopExpireAdd
    \/ NextReturned
    \/ LoopBreak
    \/ LoopAdvance
    \/ GenEof
    \/ GenResume147
    \/ GenResume154
    \/ GenBlank
    \/ GenInvalidSkip
    \/ GenInvalidRaise
    \/ GenOrderSkip
    \/ GenOrderRaise
    \/ GenAccept

Spec == Init /\ [][Next]_vars

\* main() is one sequential program that keeps running until it returns or an
\* exception leaves it: a step that can be taken is eventually taken
SpecFair == Spec /\ WF_vars(Next)

(***************************************************************************)
(* SpecEM: effective_minute applied to one timestamp                       *)
(***************************************************************************)
Idle ==
    /\ window_size = 1
    /\ strict_event_name = FALSE
    /\ skip_invalid = FALSE
    /\ enforce_order = FALSE
    /\ gen = NewGen(<<>>)
    /\ pc = "pure"
    /\ ma = MovingAverageWindow(1)
    /\ next_bucket = None
    /\ current_out = None
    /\ last_bucket_minute = None
    /\ stdout = <<>>
    /\ exit = ""

EMInputs ==
    {DateTime(d, h, mi, s, us) :
        d \in 0..1, h \in {0, 23}, mi \in {0, 30, 59}, s \in {0, 1, 59},
        us \in {0, 1, 999999}}

InitEM ==
    /\ Idle
    /\ arg \in {Some(dt) : dt \in EMInputs}
    /\ ret = None

ApplyEffectiveMinute ==
    /\ pc = "pure"
    /\ IsNone(ret)
    /\ ret' = Some(effective_minute(Val(arg)))
    /\ UNCHANGED <<args, gen, pc, ma, locals, stdout, exit, arg>>

NextEM == ApplyEffectiveMinute

SpecEM == InitEM /\ [][NextEM]_vars

(***************************************************************************)
(* SpecParse: parse_and_validate_event applied to one line                 *)
(***************************************************************************)
InitParse ==
    /\ Idle
    /\ arg \in {Some(<<l, n, st>>) : l \in ParserLineSet, n \in 1..MaxLines, st \in BOOLEAN}
    /\ ret = None

ApplyParse ==
    /\ pc = "pure"
    /\ IsNone(ret)
    /\ ret' = Some(parse_and_validate_event(Val(arg)[1], Val(arg)[2], Val(arg)[3]))
    /\ UNCHANGED <<args, gen, pc, ma, locals, stdout, exit, arg>>

NextParse == ApplyParse

SpecParse == InitParse /\ [][NextParse]_vars

(***************************************************************************)
(* What the properties below speak of, stated apart from the code.         *)
(***************************************************************************)
\* a line that satisfies every rule of the parser
LineValid(line) ==
    /\ line.json_ok /\ line.is_obj /\ line.has_ts /\ line.has_dur
    /\ line.ts_is_str /\ line.ts_fmt_ok /\ line.dur_numeric /\ line.dur >= 0
    /\ (strict_event_name => line.name_ok)

\* the numbers of the accepted lines among the first n lines of f: the lines
\* that are not blank, are valid and, under order enforcement, are not earlier
\* than the accepted line before them
RECURSIVE AcceptedIdx(_, _)
AcceptedIdx(f, n) ==
    IF n = 0 THEN <<>>
    ELSE LET prev == AcceptedIdx(f, n - 1)
             ok == /\ ~f[n].blank
                   /\ LineValid(f[n])
                   /\ (enforce_order /\ prev # <<>>
                          => ~Before(f[n].ts, f[prev[Len(prev)]].ts))
         IN  IF ok THEN Append(prev, n) ELSE prev

\* the accepted events among the lines read so far, in order of arrival
Event(i) == [line_no |-> i, ts |-> gen.f[i].ts, dur |-> RoundFloat(gen.f[i].dur)]
Accepted ==
    LET idx == AcceptedIdx(gen.f, gen.line_no)
    IN  [k \in 1..Len(idx) |-> Event(idx[k])]

\* the events acc are in non-decreasing timestamp order
InOrder(acc) == \A i \in 1..Len(acc) - 1 : ~Before(acc[i + 1].ts, acc[i].ts)

\* the minute number of an output record
OutMinute(k) == (stdout[k].date.day * 24 + stdout[k].date.hour) * 60 + stdout[k].date.minute

EffMinute(e) == ToMinutes(effective_minute(e.ts))

\* how many of the events acc have their effective minute in lo..hi
CountIn(acc, lo, hi) ==
    Cardinality({i \in 1..Len(acc) : lo <= EffMinute(acc[i]) /\ EffMinute(acc[i]) <= hi})

\* the float sum of the durations of the first n events of acc whose effective
\* minute is minute number m, added in the order of arrival
RECURSIVE EventsSum(_, _, _)
EventsSum(acc, m, n) ==
    IF n = 0 THEN 0
    ELSE IF EffMinute(acc[n]) = m
         THEN FAdd(EventsSum(acc, m, n - 1), acc[n].dur)
         ELSE EventsSum(acc, m, n - 1)

\* the float sum of the durations of the events of the minutes lo..hi, added
\* minute by minute
RECURSIVE MinutesSum(_, _, _)
MinutesSum(acc, lo, hi) ==
    IF hi < lo THEN 0
    ELSE FAdd(MinutesSum(acc, lo, hi - 1), EventsSum(acc, hi, Len(acc)))

\* q is the quotient n / d
IsQuotient(q, n, d) == q.den # 0 /\ q.num * d = n * q.den

(***************************************************************************)
(* C1: with the accepted events in non-decreasing timestamp order, the     *)
(* average of every emitted record for minute M is the sum of the          *)
(* durations divided by the number of the accepted events whose effective  *)
(* minute lies in M - (window_size - 1) .. M, and 0 when there is none.    *)
(* The sum is the float sum of those durations, added in order.            *)
(***************************************************************************)
C1_AverageOverWindow ==
    LET acc == Accepted
    IN  InOrder(acc) =>
            \A k \in 1..Len(stdout) :
                LET hi == OutMinute(k)
                    lo == hi - (window_size - 1)
                    n == CountIn(acc, lo, hi)
                    q == stdout[k].average_delivery_time
                IN  IF n = 0 THEN q.num = 0
                    ELSE IsQuotient(q, MinutesSum(acc, lo, hi), n)

(***************************************************************************)
(* C2 (as amended): in every run whose accepted events are in              *)
(* non-decreasing timestamp order, the emitted minutes start at the        *)
(* floored minute of the first accepted event, each is exactly one minute  *)
(* after the one before it, and when the run completes the last one is     *)
(* the minute of the last bucket.                                          *)
(***************************************************************************)
OnTheMinute(k) ==
    /\ stdout[k].date.second = 0
    /\ stdout[k].date.hour \in 0..23
    /\ stdout[k].date.minute \in 0..59

Contiguous(acc) ==
    /\ OutMinute(1) = ToMinutes(acc[1].ts)
    /\ \A k \in 1..Len(stdout) : OnTheMinute(k)
    /\ \A k \in 1..Len(stdout) - 1 : OutMinute(k + 1) = OutMinute(k) + 1
    /\ pc = "done" => OutMinute(Len(stdout)) = ToMinutes(gen.yielded[Len(gen.yielded)][1])

C2_ContiguousInOrder ==
    LET acc == Accepted
    IN  (stdout # <<>> /\ InOrder(acc)) => Contiguous(acc)

\* C2 as stated: the same for any input and any flags
C2_ContiguousAnyInput == stdout # <<>> => Contiguous(Accepted)

\* a completed run in order, with a minute that has no event of its own
C2_Witness ==
    LET acc == Accepted
    IN  /\ pc = "done" /\ InOrder(acc) /\ Len(stdout) >= 3
        /\ \E k \in 1..Len(stdout) : CountIn(acc, OutMinute(k), OutMinute(k)) = 0
        /\ \E k \in 2..Len(stdout) : stdout[k].date.day # stdout[1].date.day

(***************************************************************************)
(* C3: effective_minute(t) is floor_to_minute(t) when the seconds and the  *)
(* microseconds of t are both zero and floor_to_minute(t) + 1 minute       *)
(* otherwise, across the hour and the day: the result is a well-formed     *)
(* time on the minute, in the same minute as t or in the next one.         *)
(***************************************************************************)
C3_EffectiveMinute ==
    ~IsNone(ret) =>
        LET t == Val(arg)
            r == Val(ret)
            fl == floor_to_minute(t)
        IN  /\ r.second = 0 /\ r.microsecond = 0
            /\ r.hour \in 0..23 /\ r.minute \in 0..59
            /\ fl.second = 0 /\ fl.microsecond = 0
            /\ fl.day = t.day /\ fl.hour = t.hour /\ fl.minute = t.minute
            /\ IF t.second = 0 /\ t.microsecond = 0
               THEN r = fl
               ELSE ToMinutes(r) = ToMinutes(fl) + 1

\* a timestamp inside the last minute of a day, taken to the next day
C3_Witness ==
    /\ ~IsNone(ret)
    /\ Val(arg).hour = 23 /\ Val(arg).minute = 59
    /\ Val(arg).second = 0 /\ Val(arg).microsecond = 1
    /\ Val(ret).day = Val(arg).day + 1 /\ Val(ret).hour = 0 /\ Val(ret).minute = 0

(***************************************************************************)
(* C4 (as amended): with the accepted events in non-decreasing timestamp   *)
(* order, at every emission point every bucket held in the window has a    *)
(* minute m with current_out - (window_size - 1) <= m <= current_out.      *)
(***************************************************************************)
WindowInSpan ==
    pc = "emit" =>
        \A i \in 1..Len(ma.window) :
            LET m == ToMinutes(ma.window[i][1])
                now == ToMinutes(Val(current_out))
            IN  now - (window_size - 1) <= m /\ m <= now

C4_WindowSpanInOrder == InOrder(Accepted) => WindowInSpan

\* C4 as stated: at every emission point, whatever the order of the events
C4_WindowSpanAnyInput == WindowInSpan

\* an emission point with a bucket in the window after an older one has expired
C4_Witness ==
    /\ pc = "emit" /\ InOrder(Accepted)
    /\ ma.window # <<>>
    /\ ma.window[1][1] # gen.yielded[1][1]

(***************************************************************************)
(* C5: the first record is for the floored minute of the first accepted    *)
(* event.  When that event is on a minute boundary the first record        *)
(* averages the bucket it belongs to (a single such event of duration d    *)
(* gives exactly one record, with average d); otherwise the first record   *)
(* has average 0 and the record one minute later averages that bucket.     *)
(***************************************************************************)
\* the length of the first run of events of acc that share an effective minute
RECURSIVE FirstRun(_, _)
FirstRun(acc, n) ==
    IF n < Len(acc) /\ EffMinute(acc[n + 1]) = EffMinute(acc[1])
    THEN FirstRun(acc, n + 1) ELSE n

\* the float sum of the durations of the first n events of acc
RECURSIVE PrefixSum(_, _)
PrefixSum(acc, n) == IF n = 0 THEN 0 ELSE FAdd(PrefixSum(acc, n - 1), acc[n].dur)

C5_FirstRecord ==
    stdout # <<>> =>
        LET acc == Accepted
            e == acc[1]
            n == FirstRun(acc, 1)
            first == Quotient(PrefixSum(acc, n), n)
        IN  /\ OutMinute(1) = ToMinutes(e.ts)
            /\ OnTheMinute(1)
            /\ IF e.ts.second = 0 /\ e.ts.microsecond = 0
               THEN /\ stdout[1].average_delivery_time = first
                    /\ (pc = "done" /\ Len(acc) = 1) =>
                          /\ Len(stdout) = 1
                          /\ stdout[1].average_delivery_time = Quotient(e.dur, 1)
               ELSE /\ stdout[1].average_delivery_time = Quotient(0, 1)
                    /\ Len(stdout) >= 2 =>
                          /\ OutMinute(2) = OutMinute(1) + 1
                          /\ stdout[2].average_delivery_time = first

\* a first event inside a minute, whose duration shows up one record later
C5_Witness ==
    /\ Len(stdout) >= 2
    /\ Accepted[1].ts.second # 0
    /\ stdout[1].average_delivery_time.num = 0
    /\ stdout[2].average_delivery_time.num > 0

(***************************************************************************)
(* The validation rules, each with the message of its failure, and the     *)
(* first rule of an ordered list that a line violates.                     *)
(***************************************************************************)
Violates(kind, line, strict) ==
    CASE kind = "invalid JSON" -> ~line.json_ok
      [] kind = "JSON value must be an object" -> ~line.is_obj
      [] kind = "missing 'timestamp'" -> ~line.has_ts
      [] kind = "missing 'duration'" -> ~line.has_dur
      [] kind = "'timestamp' must be a string" -> ~line.ts_is_str
      [] kind = "'timestamp' does not match format" -> ~line.ts_fmt_ok
      [] kind = "'duration' must be numeric" -> ~line.dur_numeric
      [] kind = "'duration' must be >= 0" -> line.dur < 0
      [] kind = "expected event_name" -> strict /\ ~line.name_ok

RulesInOrder ==
    << "invalid JSON", "JSON value must be an object", "missing 'timestamp'",
       "missing 'duration'", "'timestamp' must be a string",
       "'timestamp' does not match format", "'duration' must be numeric",
       "'duration' must be >= 0", "expected event_name" >>

Broken(order, line, strict) == {i \in 1..Len(order) : Violates(order[i], line, strict)}

FirstViolated(order, line, strict) ==
    LET b == Broken(order, line, strict)
    IN  order[CHOOSE i \in b : \A j \in b : i <= j]

(***************************************************************************)
(* C6: with skip_invalid set, the buckets produced are those of a run on   *)
(* the input with the rejected lines deleted, processing goes on to the    *)
(* end of the input, and every rejected line (failed validation, or out of *)
(* order under enforce_order) has exactly one message on standard error.   *)
(***************************************************************************)
RejectedLines ==
    LET idx == AcceptedIdx(gen.f, gen.line_no)
    IN  {n \in 1..gen.line_no :
            ~gen.f[n].blank /\ \A k \in 1..Len(idx) : idx[k] # n}

\* the first n lines of f without the lines numbered in R
RECURSIVE Without(_, _, _)
Without(f, n, R) ==
    IF n = 0 THEN <<>>
    ELSE IF n \in R THEN Without(f, n - 1, R)
    ELSE Append(Without(f, n - 1, R), f[n])

C6_SkipInvalid ==
    (skip_invalid /\ gen.state = "closed") =>
        LET R == RejectedLines
            rerun == Drain(NewGen(Without(gen.f, Len(gen.f), R)))
        IN  /\ IsNone(gen.error)
            /\ gen.line_no = Len(gen.f)
            /\ gen.yielded = rerun.yielded
            /\ rerun.stderr = <<>>
            /\ Len(gen.stderr) = Cardinality(R)
            /\ \A n \in R : \E i \in 1..Len(gen.stderr) : gen.stderr[i].line_no = n
            /\ \A i \in 1..Len(gen.stderr) - 1 :
                   gen.stderr[i].line_no < gen.stderr[i + 1].line_no

\* a finished run that skipped an out-of-order line and an invalid line
C6_Witness ==
    /\ skip_invalid /\ enforce_order /\ gen.state = "closed" /\ pc = "done"
    /\ gen.yielded # <<>>
    /\ \E i \in 1..Len(gen.stderr) : gen.stderr[i].kind = "timestamp out of order"
    /\ \E i \in 1..Len(gen.stderr) : gen.stderr[i].kind # "timestamp out of order"

(***************************************************************************)
(* C7: with enforce_order set and skip_invalid clear, a valid line whose   *)
(* timestamp is strictly earlier than that of the previously accepted      *)
(* event ends the run with an error naming the line, the timestamp and the *)
(* previous timestamp; a line with an equal timestamp is accepted.         *)
(***************************************************************************)
C7_OrderEnforced ==
    (enforce_order /\ ~skip_invalid) =>
        \A n \in 1..gen.line_no :
            LET prev == AcceptedIdx(gen.f, n - 1)
                line == gen.f[n]
            IN  (~line.blank /\ LineValid(line) /\ prev # <<>>) =>
                    LET p == gen.f[prev[Len(prev)]].ts
                    IN  IF Before(line.ts, p)
                        THEN /\ n = gen.line_no
                             /\ gen.state = "closed"
                             /\ gen.error =
                                   Some([line_no |-> n, kind |-> "timestamp out of order",
                                         got |-> line.ts, prev |-> p])
                        ELSE /\ ~IsNone(gen.error) => Val(gen.error).line_no # n
                             /\ n = gen.line_no =>
                                   IsNone(gen.error) /\ gen.prev_ts = Some(line.ts)

\* two events with the same timestamp are accepted, then an earlier one stops the run
C7_Witness ==
    /\ enforce_order /\ ~skip_invalid /\ pc = "crashed"
    /\ gen.line_no = 3
    /\ LineValid(gen.f[1]) /\ ~gen.f[1].blank
    /\ LineValid(gen.f[2]) /\ ~gen.f[2].blank
    /\ gen.f[1].ts = gen.f[2].ts
    /\ ~IsNone(gen.error) /\ Val(gen.error).line_no = 3
    /\ Val(gen.error).kind = "timestamp out of order"

(***************************************************************************)
(* C8: with skip_invalid clear, the first non-blank line that fails        *)
(* validation ends the run with an error carrying its line number and the  *)
(* rule it violated, and after the error no bucket is yielded and no       *)
(* record is emitted.                                                      *)
(***************************************************************************)
C8_ErrorReported ==
    ~skip_invalid =>
        \A n \in 1..gen.line_no :
            (~gen.f[n].blank /\ ~LineValid(gen.f[n])) =>
                /\ n = gen.line_no
                /\ gen.state = "closed"
                /\ gen.error =
                      Some(ValueError(n, FirstViolated(RulesInOrder, gen.f[n],
                                                       strict_event_name)))

C8_NothingAfterError ==
    ~IsNone(gen.error) => (gen'.yielded = gen.yielded /\ stdout' = stdout)

C8_AbortOnInvalid == [](C8_ErrorReported) /\ [][C8_NothingAfterError]_vars

\* a run that printed records and then stopped on an invalid line
C8_Witness ==
    /\ ~skip_invalid /\ pc = "crashed" /\ exit = "ValueError"
    /\ stdout # <<>>
    /\ ~IsNone(gen.error) /\ Val(gen.error).kind # "timestamp out of order"
    /\ Val(gen.error).line_no = gen.line_no

(***************************************************************************)
(* C9 (as amended): a line is checked in this order, and the first failing *)
(* check is the one reported, with the line number: the line is JSON, the  *)
(* value is an object, a timestamp is present, a duration is present, the  *)
(* timestamp is text, the timestamp has the required format, the duration  *)
(* is coercible to a number, the duration is not negative, and (strict     *)
(* mode only) the event name is the expected one.                          *)
(***************************************************************************)
C9_ValidationOrder ==
    ~IsNone(ret) =>
        LET line == Val(arg)[1]
            line_no == Val(arg)[2]
            strict == Val(arg)[3]
            r == Val(ret)
        IN  IF Broken(RulesInOrder, line, strict) = {}
            THEN ~r.raised /\ r.value = <<line.ts, line.dur>>
            ELSE /\ r.raised
                 /\ r.error = ValueError(line_no, FirstViolated(RulesInOrder, line, strict))

(***************************************************************************)
(* C9 as stated: the order is (a) JSON, (b) object, (c, d) timestamp       *)
(* present and textual, (e) timestamp format, (f) duration present and     *)
(* coercible, (g) duration not negative, (h) event name.                   *)
(***************************************************************************)
RuleClass(kind) ==
    CASE kind \in {"missing 'timestamp'", "'timestamp' must be a string"} -> "timestamp"
      [] kind \in {"missing 'duration'", "'duration' must be numeric"} -> "duration"
      [] OTHER -> kind

ClassesAsStated ==
    << "invalid JSON", "JSON value must be an object", "timestamp",
       "'timestamp' does not match format", "duration",
       "'duration' must be >= 0", "expected event_name" >>

BrokenClass(c, line, strict) ==
    \E i \in 1..Len(RulesInOrder) :
        RuleClass(RulesInOrder[i]) = c /\ Violates(RulesInOrder[i], line, strict)

C9_OrderAsStated ==
    ~IsNone(ret) =>
        LET line == Val(arg)[1]
            strict == Val(arg)[3]
            r == Val(ret)
            b == {i \in 1..Len(ClassesAsStated) : BrokenClass(ClassesAsStated[i], line, strict)}
        IN  IF b = {} THEN ~r.raised
            ELSE /\ r.raised
                 /\ RuleClass(r.error.kind) = ClassesAsStated[CHOOSE i \in b : \A j \in b : i <= j]

\* an object with a timestamp that is not text and with no duration
C9_Witness ==
    /\ ~IsNone(ret)
    /\ LET line == Val(arg)[1]
       IN  /\ line.json_ok /\ line.is_obj /\ line.has_ts
           /\ ~line.ts_is_str /\ ~line.has_dur
    /\ Val(ret).raised /\ Val(ret).error.kind = "missing 'duration'"

(***************************************************************************)
(* C10: whenever the average is taken it is w_sum / w_cnt when w_cnt > 0   *)
(* and 0 when w_cnt = 0, there is no division by zero, and it is never     *)
(* negative.                                                               *)
(***************************************************************************)
C10_AverageNeverNegative ==
    pc = "emit" =>
        LET q == average(ma)
        IN  /\ q.den > 0
            /\ ma.w_cnt > 0 => q = Quotient(ma.w_sum, ma.w_cnt)
            /\ ma.w_cnt = 0 => q.num = 0
            /\ q.num >= 0

(***************************************************************************)
(* C11: with window_size zero or negative the run fails at once with the   *)
(* configuration error (SystemExit): the generator is never made or        *)
(* started, so no line is read, no bucket is produced, and no record is    *)
(* printed.                                                                *)
(***************************************************************************)
C11_BadWindowSize ==
    window_size <= 0 =>
        /\ pc \in {"main", "crashed"}
        /\ pc = "crashed" => exit = "SystemExit"
        /\ gen = NewGen(<<>>)
        /\ gen.f = <<>> /\ gen.line_no = 0 /\ gen.yielded = <<>>
        /\ ma.window = <<>>
        /\ stdout = <<>>

\* a run refused for a negative window size
C11_Witness == window_size < 0 /\ pc = "crashed" /\ exit = "SystemExit"

(***************************************************************************)
(* C12: when the input ends without one accepted event (an empty file,     *)
(* blank lines only, or every line rejected in skip mode) the bucket       *)
(* sequence is empty, the driver never enters its loop, ends normally, and *)
(* prints no record.                                                       *)
(***************************************************************************)
C12_EmptyBucketSequence ==
    (gen.state = "closed" /\ IsNone(gen.error) /\ Accepted = <<>>) =>
        /\ gen.yielded = <<>>
        /\ IsNone(gen.out)
        /\ pc \in {"next_first", "done"}
        /\ pc = "done" => exit = "ok"
        /\ IsNone(next_bucket) /\ IsNone(current_out)
        /\ ma.window = <<>>
        /\ stdout = <<>>

\* a finished run on a blank line and a line that was skipped
C12_Witness ==
    /\ pc = "done" /\ exit = "ok" /\ stdout = <<>>
    /\ gen.stderr # <<>>
    /\ \E n \in 1..Len(gen.f) : gen.f[n].blank

(***************************************************************************)
(* C13: in every state of the window, w_sum is the sum of the sums of the  *)
(* buckets held (added in the order they are held) and w_cnt is the sum of *)
(* their counts; both are 0 when the window is empty.                      *)
(***************************************************************************)
RECURSIVE WindowSum(_, _)
WindowSum(w, n) == IF n = 0 THEN 0 ELSE FAdd(WindowSum(w, n - 1), w[n][2])

RECURSIVE WindowCnt(_, _)
WindowCnt(w, n) == IF n = 0 THEN 0 ELSE WindowCnt(w, n - 1) + w[n][3]

C13_RunningTotals ==
    /\ ma.w_sum = WindowSum(ma.window, Len(ma.window))
    /\ ma.w_cnt = WindowCnt(ma.window, Len(ma.window))

(***************************************************************************)
(* C14 (as amended): with the accepted events in non-decreasing timestamp  *)
(* order, in every state of a run with window_size >= 1 the window holds   *)
(* at most window_size buckets.                                            *)
(***************************************************************************)
WindowBounded == window_size >= 1 => Len(ma.window) <= window_size

C14_WindowBoundedInOrder == InOrder(Accepted) => WindowBounded

\* C14 as stated: in every reachable state, for every input
C14_WindowBoundedAnyInput == WindowBounded

\* a full window, after an older bucket has been expired from it
C14_Witness ==
    /\ InOrder(Accepted)
    /\ window_size >= 1 /\ Len(ma.window) = window_size
    /\ ma.window[1][1] # gen.yielded[1][1]

(***************************************************************************)
(* C15: the buckets produced are the maximal runs of consecutive accepted  *)
(* events with the same effective minute, in order: each bucket has the    *)
(* run's minute, the sum of its durations and its length (at least 1); at  *)
(* most the open run is not produced yet, and at the end of the input it   *)
(* is produced too, so that every accepted event is in exactly one bucket; *)
(* with timestamps in non-decreasing order the bucket minutes strictly     *)
(* increase.                                                               *)
(***************************************************************************)
\* the runs of the first n events of acc
RECURSIVE Runs(_, _)
Runs(acc, n) ==
    IF n = 0 THEN <<>>
    ELSE LET g == Runs(acc, n - 1)
             m == effective_minute(acc[n].ts)
         IN  IF g # <<>> /\ g[Len(g)].minute = m
             THEN [g EXCEPT ![Len(g)] = [minute |-> m, sum |-> FAdd(@.sum, acc[n].dur),
                                         cnt |-> @.cnt + 1]]
             ELSE Append(g, [minute |-> m, sum |-> FAdd(0, acc[n].dur), cnt |-> 1])

RECURSIVE YieldedCnt(_)
YieldedCnt(n) == IF n = 0 THEN 0 ELSE YieldedCnt(n - 1) + gen.yielded[n][3]

C15_BucketsAreRuns ==
    LET acc == Accepted
        g == Runs(acc, Len(acc))
        y == gen.yielded
    IN  /\ Len(g) - 1 <= Len(y) /\ Len(y) <= Len(g)
        /\ \A k \in 1..Len(y) :
              /\ y[k] = <<g[k].minute, g[k].sum, g[k].cnt, floor_to_minute(acc[1].ts)>>
              /\ y[k][3] >= 1
        /\ (gen.state = "closed" /\ IsNone(gen.error)) =>
              /\ Len(y) = Len(g)
              /\ YieldedCnt(Len(y)) = Len(acc)
        /\ InOrder(acc) =>
              \A k \in 1..Len(y) - 1 : ToMinutes(y[k][1]) < ToMinutes(y[k + 1][1])

\* a whole input read: a bucket of two events and then a bucket of one
C15_Witness ==
    /\ gen.state = "closed" /\ IsNone(gen.error)
    /\ Len(gen.yielded) = 2
    /\ gen.yielded[1][3] = 2 /\ gen.yielded[2][3] = 1

(***************************************************************************)
(* C16 (as amended): for every finite input with at least one accepted     *)
(* event and every window_size >= 1, the run eventually reaches DONE       *)
(* unless a fatal per-line error ends it; the loop stops in exactly the    *)
(* iteration where no bucket is pending and the current output minute is   *)
(* >= the minute of the bucket last added to the window, and the last      *)
(* record printed is the one for the last bucket's minute.                 *)
(***************************************************************************)
HasAccepted == window_size >= 1 /\ Accepted # <<>>

\* line 274 read off the state: nothing pending, and the output minute has
\* reached the minute of the bucket at the right end of the window
NothingLeft ==
    /\ IsNone(next_bucket)
    /\ ma.window # <<>> =>
          ToMinutes(ma.window[Len(ma.window)][1]) <= ToMinutes(Val(current_out))
    /\ ma.window = <<>> =>
          ToMinutes(Val(last_bucket_minute)) <= ToMinutes(Val(current_out))

C16_StopsWhenNothingLeft == pc = "emit" => (pc' = "done" <=> NothingLeft)

C16_LastRecord ==
    (pc = "done" /\ stdout # <<>>) =>
        /\ exit = "ok"
        /\ stdout[Len(stdout)].date = Strftime(gen.yielded[Len(gen.yielded)][1])
        /\ gen.state = "closed" /\ IsNone(gen.error)

C16_ReachesDoneUnlessError ==
    /\ HasAccepted ~> (pc = "done" \/ ~IsNone(gen.error))
    /\ [][C16_StopsWhenNothingLeft]_vars
    /\ []C16_LastRecord

\* C16 as stated: every input with an accepted event, error or not, ends in DONE
C16_ReachesDone ==
    /\ HasAccepted ~> pc = "done"
    /\ [][C16_StopsWhenNothingLeft]_vars
    /\ []C16_LastRecord

\* the loop left after it ran on past a bucket to reach the last one
C16_Witness ==
    /\ pc = "done" /\ Len(stdout) >= 3 /\ Len(gen.yielded) >= 2
    /\ stdout[Len(stdout)].date = Strftime(gen.yielded[Len(gen.yielded)][1])

(***************************************************************************)
(* C17: with the accepted events in non-decreasing timestamp order the     *)
(* clamp of lines 280-281 is never taken: whenever the loop goes on, the   *)
(* output minute plus one is not later than the pending bucket's minute,   *)
(* and the output minute advances by exactly one.                          *)
(***************************************************************************)
ClampTaken ==
    /\ ~IsNone(next_bucket)
    /\ ToMinutes(Val(current_out)) + 1 > ToMinutes(Val(next_bucket)[1])

C17_NoClamp ==
    (InOrder(Accepted) /\ pc = "emit") =>
        /\ ~ClampTaken
        /\ pc' = "loop" =>
              /\ ToMinutes(Val(current_out')) = ToMinutes(Val(current_out)) + 1
              /\ Val(current_out').second = 0 /\ Val(current_out').microsecond = 0

C17_ClampNeverTaken == [][C17_NoClamp]_vars

\* the loop has gone on by one minute, over a minute with no bucket of its own
C17_Witness ==
    /\ InOrder(Accepted) /\ pc = "loop" /\ stdout # <<>>
    /\ ~IsNone(next_bucket)
    /\ ToMinutes(Val(current_out)) < ToMinutes(Val(next_bucket)[1])
    /\ ToMinutes(Val(current_out)) > ToMinutes(gen.yielded[1][1])

(***************************************************************************)
(* main() run to its end on a whole file f that raises no error: the       *)
(* records it prints.  RunLoop is the while loop of lines 255-281 with     *)
(* B the buckets of the generator and i the number of the pending one.     *)
(***************************************************************************)
RECURSIVE RunLoop(_, _, _, _, _, _)
RunLoop(B, w, cur, i, last, out) ==
    LET due   == i <= Len(B) /\ cur = B[i][1]
        w1    == IF due THEN add_bucket(expire_old(w, cur), B[i][1], B[i][2], B[i][3])
                 ELSE expire_old(w, cur)
        i1    == IF due THEN i + 1 ELSE i
        nm    == IF i1 <= Len(B) THEN Some(B[i1][1]) ELSE None
        out1  == emit(out, cur, w1)
        last1 == IF w1.window # <<>> THEN w1.window[Len(w1.window)][1] ELSE last
    IN  IF MustBreak(nm, cur, last1) THEN out1
        ELSE RunLoop(B, w1, Advance(cur, nm), i1, last1, out1)

RunMain(f) ==
    LET B == Drain(NewGen(f)).yielded
    IN  IF B = <<>> THEN <<>>
        ELSE RunLoop(B, MovingAverageWindow(window_size), B[1][4], 1, B[1][1], <<>>)

(***************************************************************************)
(* C18: a fatal per-line error can come after records were printed.  The   *)
(* records printed before it are, one for one, the first records of the    *)
(* run on the input cut just before the offending line; the record for the *)
(* minute of the bucket being added when the error is raised, and every    *)
(* record after it in that run, is not printed.                            *)
(***************************************************************************)
C18_RecordsBeforeError ==
    ~IsNone(gen.error) =>
        LET n == Val(gen.error).line_no
            full == RunMain(SubSeq(gen.f, 1, n - 1))
        IN  /\ n = gen.line_no
            /\ Len(stdout) <= Len(full)
            /\ \A k \in 1..Len(stdout) : stdout[k] = full[k]
            /\ IsNone(current_out) => stdout = <<>>
            /\ ~IsNone(current_out) =>
                  /\ ma.window # <<>>
                  /\ ma.window[Len(ma.window)][1] = Val(current_out)
                  /\ Len(stdout) < Len(full)
                  /\ full[Len(stdout) + 1].date = Strftime(Val(current_out))
                  /\ InOrder(Accepted) =>
                        \A k \in 1..Len(stdout) : OutMinute(k) < ToMinutes(Val(current_out))

\* the run has stopped on an error in the third line, after a record was
\* printed and before the records of the two events read were
C18_Witness ==
    /\ pc = "crashed" /\ exit = "ValueError"
    /\ gen.line_no = 3 /\ Len(Accepted) = 2
    /\ stdout # <<>>
    /\ Len(RunMain(SubSeq(gen.f, 1, 2))) >= Len(stdout) + 2

(***************************************************************************)
(* C19: with enforce_order and skip_invalid both set, a line skipped for   *)
(* being out of order does not become the reference of the comparison:     *)
(* prev_ts is the timestamp of the last line that was not skipped, the     *)
(* lines that were not skipped have non-decreasing timestamps whatever the *)
(* input, and the minutes printed go up by exactly one minute.             *)
(***************************************************************************)
\* the numbers of the lines read that are not blank and got no message
RECURSIVE Unskipped(_)
Unskipped(n) ==
    IF n = 0 THEN <<>>
    ELSE IF gen.f[n].blank \/ \E i \in 1..Len(gen.stderr) : gen.stderr[i].line_no = n
         THEN Unskipped(n - 1)
         ELSE Append(Unskipped(n - 1), n)

C19_ReferenceIsLastAccepted ==
    (enforce_order /\ skip_invalid) =>
        LET u == Unskipped(gen.line_no)
        IN  /\ IsNone(gen.error)
            /\ \A k \in 1..Len(u) - 1 : ~Before(gen.f[u[k + 1]].ts, gen.f[u[k]].ts)
            /\ gen.prev_ts = IF u = <<>> THEN None ELSE Some(gen.f[u[Len(u)]].ts)
            /\ \A i \in 1..Len(gen.stderr) :
                  gen.stderr[i].kind = "timestamp out of order" =>
                      /\ gen.stderr[i].prev = gen.f[u[Len(Unskipped(gen.stderr[i].line_no))]].ts
                      /\ Before(gen.stderr[i].got, gen.stderr[i].prev)
            /\ \A k \in 1..Len(stdout) - 1 : OutMinute(k + 1) = OutMinute(k) + 1

\* two lines in a row skipped against the same reference, the second one later
\* than the first, in a run that went on to print its records
C19_Witness ==
    /\ enforce_order /\ skip_invalid /\ pc = "done" /\ stdout # <<>>
    /\ Len(gen.stderr) = 2
    /\ gen.stderr[1].kind = "timestamp out of order"
    /\ gen.stderr[2].kind = "timestamp out of order"
    /\ gen.stderr[1].prev = gen.stderr[2].prev
    /\ Before(gen.stderr[1].got, gen.stderr[2].got)

====
